---- MODULE Spec2Model ----
(***************************************************************************)
(* Shared-memory export of gpsd (shmexport.c): the segment manager         *)
(* (recreate_segment, shm_acquire, shm_release), the publisher             *)
(* (shm_update) and one reader process running the matching read protocol  *)
(* on the exported record.                                                 *)
(*                                                                         *)
(* Every System V call is one atomic step of the daemon; the reader       *)
(* process interleaves with them at every step boundary.                   *)
(***************************************************************************)
EXTENDS Integers, Sequences, FiniteSets, TLC

\* ------------------------------------------------------------------ bounds
\* Largest segment size (in units of the record size granule).
MaxSize == 2
\* Number of shm_acquire calls of one run of the daemon.
MaxAcquire == 2
\* Number of publish cycles (shm_update on a non-null region) of one run.
MaxPublish == 5
\* Number of shm_acquire calls of one run in the runs of the protocol.
MaxProtocolAcquire == 1
\* Stands for INT_MAX: `static int tick` is modelled at this reduced width.
IntMax == 1

\* ------------------------------------------------------- program constants
\* NULL, the value of context->shmexport when nothing is exported.
NULL == 0
\* (void *)-1, the failure sentinel shmat returns.
MAP_FAILED == -1
\* SHM_PSEUDO_FD, the descriptor value stored in the exported payload.
SHM_PSEUDO_FD == -1
\* The daemon's own descriptor in gpsdata->gps_fd (any non-negative number).
GpsFd == 3

IntMin == (0 - IntMax) - 1
Ints == IntMin..IntMax
\* The number of values of `int`: the tick repeats after so many cycles.
NTicks == (IntMax - IntMin) + 1
Sizes == 1..MaxSize
\* Segment identifiers: the pre-existing one and one per acquire at most.
SegIds == 1..(MaxAcquire + 1)
\* Addresses shmat hands out, one per successful attach.
Addrs == 1..MaxAcquire
\* Contents of the snapshots passed to shm_update: the snapshots of one run
\* are all different, the n-th one carries n.
Snapshots == 1..MaxPublish
\* What this process may do with a segment: "owner" (read, write, remove),
\* "rw" (read, write), "ro" (read), "none".
Perms == {"owner", "rw", "ro", "none"}
\* The words of struct gps_data_t: the descriptor field and the rest.
Words == {"fd", "data"}

\* A payload word: its value and the publish cycle that stored it
\* (0: the kernel's zero fill, -1: a cycle of an earlier run of the daemon).
Word(v, p) == [val |-> v, pub |-> p]
ZeroWord == Word(0, 0)

NoSeg ==
  [live |-> FALSE, size |-> 0, nattch |-> 0, rmid |-> FALSE, perm |-> "none",
   bookend1 |-> 0, bookend2 |-> 0, fd |-> ZeroWord, data |-> ZeroWord]

\* A segment as shmget(IPC_CREAT) creates it: zero filled, owned by the caller.
NewSeg(size) ==
  [NoSeg EXCEPT !.live = TRUE, !.size = size, !.perm = "owner"]

\* A segment left at the key before this run: by another program (zero
\* content) or by an earlier run of the daemon that completed its first
\* publish cycle and ended without shm_release.
OldSeg(size, n, perm, stale) ==
  IF stale
  THEN [NewSeg(size) EXCEPT !.nattch = n, !.perm = perm,
                            !.bookend1 = 1, !.bookend2 = 1,
                            !.fd = Word(SHM_PSEUDO_FD, -1),
                            !.data = Word(1, -1)]
  ELSE [NewSeg(size) EXCEPT !.nattch = n, !.perm = perm]

VARIABLES
  kernel,      \* [segs, keyseg, nid, enospc, enomem]: the System V segments,
               \* the one at the key, the next identifier, what has run out
  desired,     \* desired_size / sizeof(struct shmexport_t)
  pc,          \* position of the daemon
  ctx,         \* context: [shmexport, shmid]
  amap,        \* the daemon's attachments: address -> segment (0: unmapped)
  tick,        \* static int tick of shm_update
  errno,       \* errno of the daemon
  saved_errno, \* recreate_segment's local
  shmid,       \* recreate_segment's / shm_acquire's local
  retAt,       \* source line of recreate_segment's last return (0: none)
  acqRet,      \* shm_acquire's last result: "none", "running", "true", "false"
  gpsdata,     \* shm_update's argument
  wcopy,       \* words of the structure copy still to be stored
  calls,       \* system calls issued by the current (or last) handler
  op,          \* the handler called last
  hist,        \* history: [naq, npub, wild, nullAtCall, warned, touched,
               \*           lastdone, ev]
  rd           \* the reader process
vars ==
  <<kernel, desired, pc, ctx, amap, tick, errno, saved_errno, shmid, retAt,
    acqRet, gpsdata, wcopy, calls, op, hist, rd>>

\* ------------------------------------------------------------ the platform
\* The System V calls shmexport.c makes, as Linux answers them.  K is the
\* kernel state [segs, keyseg, nid, enospc, enomem]; each operator gives the
\* call's result and the kernel state after it.

Destroy(K, s) ==
  [K EXCEPT !.segs[s] = NoSeg, !.keyseg = IF @ = s THEN 0 ELSE @]

\* shmget(shmkey, size, mode | IPC_CREAT)
ShmgetCreat(K, size) ==
  IF K.keyseg = 0
  THEN IF K.enospc \/ K.nid \notin SegIds
       THEN [id |-> -1, err |-> "ENOSPC", k |-> K]
       ELSE [id |-> K.nid, err |-> "",
             k |-> [K EXCEPT !.segs[K.nid] = NewSeg(size),
                             !.keyseg = K.nid, !.nid = K.nid + 1]]
  ELSE IF size > K.segs[K.keyseg].size
       THEN [id |-> -1, err |-> "EINVAL", k |-> K]
       ELSE IF K.segs[K.keyseg].perm \notin {"owner", "rw"}
            THEN [id |-> -1, err |-> "EACCES", k |-> K]
            ELSE [id |-> K.keyseg, err |-> "", k |-> K]

\* shmget(shmkey, 0, 0)
ShmgetProbe(K) ==
  IF K.keyseg = 0
  THEN [id |-> -1, err |-> "ENOENT"]
  ELSE [id |-> K.keyseg, err |-> ""]

\* shmctl(id, IPC_STAT, &segment)
ShmctlStat(K, id) ==
  IF id \notin SegIds \/ ~K.segs[id].live
  THEN [rc |-> -1, err |-> "EINVAL", buf |-> [shm_segsz |-> 0, shm_nattch |-> 0]]
  ELSE IF K.segs[id].perm = "none"
       THEN [rc |-> -1, err |-> "EACCES",
             buf |-> [shm_segsz |-> 0, shm_nattch |-> 0]]
       ELSE [rc |-> 0, err |-> "",
             buf |-> [shm_segsz |-> K.segs[id].size,
                      shm_nattch |-> K.segs[id].nattch]]

\* shmctl(id, IPC_RMID, NULL): the segment leaves the key at once and is
\* destroyed when nothing is attached to it (now, or at the last detach).
ShmctlRmid(K, id) ==
  IF id \notin SegIds \/ ~K.segs[id].live
  THEN [rc |-> -1, err |-> "EINVAL", k |-> K]
  ELSE IF K.segs[id].perm # "owner"
       THEN [rc |-> -1, err |-> "EPERM", k |-> K]
       ELSE IF K.segs[id].nattch = 0
            THEN [rc |-> 0, err |-> "", k |-> Destroy(K, id)]
            ELSE [rc |-> 0, err |-> "",
                  k |-> [K EXCEPT !.segs[id].rmid = TRUE,
                                  !.keyseg = IF @ = id THEN 0 ELSE @]]

\* shmat(id, 0, 0) by the daemon
Shmat(K, id) ==
  IF id \notin SegIds \/ ~K.segs[id].live
  THEN [ok |-> FALSE, err |-> "EINVAL", k |-> K]
  ELSE IF K.segs[id].perm \notin {"owner", "rw"}
       THEN [ok |-> FALSE, err |-> "EACCES", k |-> K]
       ELSE IF K.enomem
            THEN [ok |-> FALSE, err |-> "ENOMEM", k |-> K]
            ELSE [ok |-> TRUE, err |-> "",
                  k |-> [K EXCEPT !.segs[id].nattch = @ + 1]]

\* The kernel's part of a detach from segment s.
Detach(K, s) ==
  IF K.segs[s].rmid /\ K.segs[s].nattch = 1
  THEN Destroy(K, s)
  ELSE [K EXCEPT !.segs[s].nattch = @ - 1]

\* shmdt(p) by the daemon, whose attachments are m
Shmdt(K, m, p) ==
  IF p \in Addrs /\ m[p] # 0
  THEN [rc |-> 0, err |-> "", k |-> Detach(K, m[p]), m |-> [m EXCEPT ![p] = 0]]
  ELSE [rc |-> -1, err |-> "EINVAL", k |-> K, m |-> m]

\* errno after a call: a successful call leaves it alone.
Errno(e, old) == IF e = "" THEN old ELSE e

\* ------------------------------------------------------ recreate_segment
\* (mutation) the result of the first shmget is never taken
FirstGetSucceeded_Never(id) == FALSE

\* line 50: the first shmget created or retrieved the segment
FirstGetSucceeded(id) == id # -1

\* (mutation) errno is left as the failed probe set it
RestoredErrno_Probe(saved, probe) == probe

\* lines 57, 62, 77: errno = saved_errno, after a probe that set errno to
\* `probe` failed
RestoredErrno(saved, probe) == saved

\* (mutation) the size check is dropped
SizeSufficient_Never(segment, desired_size) == FALSE

\* line 65: the existing segment is already big enough
SizeSufficient(segment, desired_size) == segment.shm_segsz >= desired_size

\* (mutation) the attachment count is not looked at
OthersAttached_Never(segment) == FALSE

\* (mutation) every segment counts as in use
OthersAttached_Always(segment) == TRUE

\* line 70: other processes are attached to the existing segment
OthersAttached(segment) == segment.shm_nattch > 0

\* ----------------------------------------------------------- shm_acquire
\* line 106: shmat returned its failure sentinel
AttachFailed(p) == p = MAP_FAILED

\* (mutation) the pointer is not reset after a failed attach
RegionAfterAttachFailure_Sentinel == MAP_FAILED

\* line 109: the region a failed attach leaves in the context
RegionAfterAttachFailure == NULL

\* ----------------------------------------------------------- shm_release
\* (mutation) the null check is dropped
ReleaseSkips_Never(context) == FALSE

\* line 122: nothing is exported
ReleaseSkips(context) == context.shmexport = NULL

\* (mutation) a failed mark ends the release
AfterMark_ReturnOnFailure(rc) == IF rc = -1 THEN "idle" ELSE "rl_dt"

\* lines 129-134: whatever shmctl(IPC_RMID) returned (a failure is logged at
\* lines 130-132), the shmdt of line 134 is next
AfterMark(rc) == "rl_dt"

\* ------------------------------------------------------------ shm_update
\* line 140: the export is enabled
UpdateEnabled(context) == context.shmexport # NULL

\* line 145: ++tick on an int; the overflow wraps to INT_MIN (what the
\* increment of a static int compiles to).
NextTick(t) == IF t = IntMax THEN IntMin ELSE t + 1

\* (mutation) both bookends are stamped before the payload is written
StoreBookend2_Both(r, t) == [r EXCEPT !.bookend2 = t, !.bookend1 = t]

\* (mutation) the trailing bookend is not stamped
StoreBookend2_Skip(r, t) == r

\* line 161: shared->bookend2 = tick
StoreBookend2(r, t) == [r EXCEPT !.bookend2 = t]

\* line 163: one word of shared->gpsdata = *gpsdata, stored by cycle n
CopyWord(r, w, g, n) ==
  IF w = "fd"
  THEN [r EXCEPT !.fd = Word(g.gps_fd, n)]
  ELSE [r EXCEPT !.data = Word(g.data, n)]

\* (mutation) the descriptor is left as copied
PatchFd_Skip(r, n) == r

\* line 166: shared->gpsdata.gps_fd = SHM_PSEUDO_FD, stored by cycle n
PatchFd(r, n) == [r EXCEPT !.fd = Word(SHM_PSEUDO_FD, n)]

\* (mutation) the leading bookend is never stamped, the trailing one twice
StoreBookend1_Trailing(r, t) == [r EXCEPT !.bookend2 = t]

\* line 171: shared->bookend1 = tick
StoreBookend1(r, t) == [r EXCEPT !.bookend1 = t]

\* The steps of one publish cycle in program order (lines 161-171).
UpdatePcs == {"up_b2", "up_f1", "up_copy", "up_f2", "up_patch", "up_f3", "up_b1"}

\* The segment context->shmexport points into (0: none, the pointer is null,
\* the failure sentinel, or an address that is no longer mapped).
Target == IF ctx.shmexport \in Addrs THEN amap[ctx.shmexport] ELSE 0

NoData == [gps_fd |-> GpsFd, data |-> 0]
Reading == {"r_pay", "r_b2"}

\* ------------------------------------------------------------------- Init
PreExisting ==
  {NoSeg} \cup
  {OldSeg(sz, n, p, st) : sz \in Sizes, n \in {0, 1}, p \in Perms, st \in BOOLEAN}

NoRead ==
  [pc |-> "detached", seg |-> 0, b1 |-> 0, fd |-> ZeroWord, data |-> ZeroWord,
   b2 |-> 0, todo |-> {}, ovl |-> 0, steady |-> FALSE]

Init ==
  /\ desired \in Sizes
  /\ \E pre \in PreExisting, sp \in BOOLEAN, mem \in BOOLEAN :
       /\ kernel = [segs |-> [i \in SegIds |-> IF i = 1 THEN pre ELSE NoSeg],
                    keyseg |-> IF pre.live THEN 1 ELSE 0,
                    nid |-> IF pre.live THEN 2 ELSE 1,
                    enospc |-> sp, enomem |-> mem]
       /\ rd = IF pre.nattch = 1
               THEN [NoRead EXCEPT !.pc = "idle", !.seg = 1]
               ELSE NoRead
  /\ pc = "idle"
  /\ ctx = [shmexport |-> NULL, shmid |-> 0]
  /\ amap = [a \in Addrs |-> 0]
  /\ tick = 0
  /\ errno = ""
  /\ saved_errno = ""
  /\ shmid = 0
  /\ retAt = 0
  /\ acqRet = "none"
  /\ gpsdata = NoData
  /\ wcopy = {}
  /\ calls = <<>>
  /\ op = "none"
  /\ hist = [naq |-> 0, npub |-> 0, wild |-> FALSE,
             nullAtCall |-> TRUE, warned |-> FALSE, touched |-> FALSE,
             lastdone |-> 0, ev |-> <<>>]

\* ----------------------------------------- shm_acquire / recreate_segment
\* recreate_segment returns -1 at `line` and shm_acquire returns false
\* (lines 92-98).
RecreateFails(line, e) ==
  /\ retAt' = line
  /\ shmid' = -1
  /\ errno' = e
  /\ acqRet' = "false"
  /\ pc' = "idle"

\* lines 87-91, 49-54: shm_acquire is called; the first shmget
AcquireCall ==
  /\ pc = "idle"
  /\ hist.naq < MaxAcquire
  /\ LET r == ShmgetCreat(kernel, desired) IN
       /\ kernel' = r.k
       /\ hist' = [hist EXCEPT !.naq = @ + 1,
                               !.nullAtCall = (ctx.shmexport = NULL),
                               !.warned = FALSE,
                               !.touched = (r.k # kernel)]
       /\ errno' = Errno(r.err, errno)
       /\ shmid' = r.id
       /\ acqRet' = "running"
       /\ IF FirstGetSucceeded(r.id)
          THEN /\ retAt' = 51
               /\ pc' = "aq_at"
               /\ UNCHANGED saved_errno
          ELSE /\ retAt' = 0
               /\ pc' = "aq_get0"
               /\ saved_errno' = Errno(r.err, errno)
  /\ calls' = <<"shmget">>
  /\ op' = "acquire"
  /\ UNCHANGED <<desired, ctx, amap, tick, gpsdata, wcopy, rd>>

\* lines 55-59: is there a segment at the key at all
RecreateProbe ==
  /\ pc = "aq_get0"
  /\ LET r == ShmgetProbe(kernel) IN
       IF r.id = -1
       THEN RecreateFails(58, RestoredErrno(saved_errno, r.err))
       ELSE /\ shmid' = r.id
            /\ pc' = "aq_stat"
            /\ UNCHANGED <<retAt, errno, acqRet>>
  /\ calls' = Append(calls, "shmget0")
  /\ UNCHANGED <<kernel, desired, ctx, amap, tick, saved_errno, gpsdata, wcopy,
                 op, hist, rd>>

\* lines 60-73: its size and its attachments
RecreateStat ==
  /\ pc = "aq_stat"
  /\ LET r == ShmctlStat(kernel, shmid) IN
       IF r.rc = -1
       THEN RecreateFails(63, RestoredErrno(saved_errno, r.err))
       ELSE IF SizeSufficient(r.buf, desired)
            THEN RecreateFails(67, errno)
            ELSE IF OthersAttached(r.buf)
                 THEN RecreateFails(72, errno)
                 ELSE /\ pc' = "aq_rmid"
                      /\ UNCHANGED <<retAt, shmid, errno, acqRet>>
  /\ calls' = Append(calls, "IPC_STAT")
  /\ UNCHANGED <<kernel, desired, ctx, amap, tick, saved_errno, gpsdata, wcopy,
                 op, hist, rd>>

\* lines 75-79: delete the existing segment
RecreateRemove ==
  /\ pc = "aq_rmid"
  /\ LET r == ShmctlRmid(kernel, shmid) IN
       /\ kernel' = r.k
       /\ hist' = [hist EXCEPT !.touched = @ \/ (r.k # kernel)]
       /\ IF r.rc = -1
          THEN RecreateFails(78, RestoredErrno(saved_errno, r.err))
          ELSE /\ pc' = "aq_get2"
               /\ UNCHANGED <<retAt, shmid, errno, acqRet>>
  /\ calls' = Append(calls, "IPC_RMID")
  /\ UNCHANGED <<desired, ctx, amap, tick, saved_errno, gpsdata, wcopy, op, rd>>

\* lines 80-81: create the segment again; its result is the result
RecreateRetry ==
  /\ pc = "aq_get2"
  /\ LET r == ShmgetCreat(kernel, desired) IN
       /\ kernel' = r.k
       /\ hist' = [hist EXCEPT !.touched = @ \/ (r.k # kernel)]
       /\ IF r.id = -1
          THEN RecreateFails(81, Errno(r.err, errno))
          ELSE /\ retAt' = 81
               /\ shmid' = r.id
               /\ pc' = "aq_at"
               /\ UNCHANGED <<errno, acqRet>>
  /\ calls' = Append(calls, "shmget")
  /\ UNCHANGED <<desired, ctx, amap, tick, saved_errno, gpsdata, wcopy, op, rd>>

\* lines 105-117: attach the segment
AcquireAttach ==
  /\ pc = "aq_at"
  /\ LET r == Shmat(kernel, shmid)
         p == IF r.ok THEN hist.naq ELSE MAP_FAILED
     IN
       /\ kernel' = r.k
       /\ amap' = IF r.ok THEN [amap EXCEPT ![p] = shmid] ELSE amap
       /\ errno' = Errno(r.err, errno)
       /\ hist' = [hist EXCEPT !.touched = @ \/ (r.k # kernel)]
       /\ IF AttachFailed(p)
          THEN /\ ctx' = [ctx EXCEPT !.shmexport = RegionAfterAttachFailure]
               /\ acqRet' = "false"
          ELSE /\ ctx' = [shmexport |-> p, shmid |-> shmid]
               /\ acqRet' = "true"
  /\ pc' = "idle"
  /\ calls' = Append(calls, "shmat")
  /\ UNCHANGED <<desired, tick, saved_errno, shmid, retAt, gpsdata, wcopy, op, rd>>

\* ----------------------------------------------------------- shm_release
\* lines 122-123: nothing is exported, return
ReleaseSkip ==
  /\ pc = "idle"
  /\ ReleaseSkips(ctx)
  /\ calls' = <<>>
  /\ op' = "release"
  /\ UNCHANGED <<kernel, desired, pc, ctx, amap, tick, errno, saved_errno, shmid,
                 retAt, acqRet, gpsdata, wcopy, hist, rd>>

\* lines 129-133: mark the segment to go away; a failure is logged
ReleaseCall ==
  /\ pc = "idle"
  /\ ~ReleaseSkips(ctx)
  /\ LET r == ShmctlRmid(kernel, ctx.shmid) IN
       /\ kernel' = r.k
       /\ errno' = Errno(r.err, errno)
       /\ hist' = [hist EXCEPT !.warned = (r.rc = -1), !.touched = (r.k # kernel)]
       /\ pc' = AfterMark(r.rc)
  /\ calls' = <<"IPC_RMID">>
  /\ op' = "release"
  /\ UNCHANGED <<desired, ctx, amap, tick, saved_errno, shmid, retAt, acqRet,
                 gpsdata, wcopy, rd>>

\* line 134: detach; the context keeps its pointer
ReleaseDetach ==
  /\ pc = "rl_dt"
  /\ LET r == Shmdt(kernel, amap, ctx.shmexport) IN
       /\ kernel' = r.k
       /\ amap' = r.m
       /\ errno' = Errno(r.err, errno)
       /\ hist' = [hist EXCEPT !.touched = @ \/ (r.k # kernel)]
  /\ pc' = "idle"
  /\ calls' = Append(calls, "shmdt")
  /\ UNCHANGED <<desired, ctx, tick, saved_errno, shmid, retAt, acqRet, gpsdata,
                 wcopy, op, rd>>

\* ------------------------------------------------------------ shm_update
\* The memory events shm_update has issued since its latest store of the
\* leading bookend, that store included: "b2", "pay" (a word of the copy),
\* "patch", "b1", and "F" for a memory_barrier().
Logged(h, e) == [h EXCEPT !.ev = Append(@, e)]

\* (mutation) memory_barrier() expands to nothing
Fence_Nop(h, p) == h

\* (mutation) the barrier of line 162 is missing
Fence_NotFirst(h, p) == IF p = "up_f1" THEN h ELSE Logged(h, "F")

\* lines 162, 164, 170: memory_barrier(), reached at position p
Fence(h, p) == Logged(h, "F")

\* line 143: the record `shared` points to.
Shared == IF Target # 0 THEN kernel.segs[Target] ELSE NoSeg

\* A store of the record's new value through context->shmexport.  When the
\* address is mapped the store lands in the segment.  When it is not (the
\* pointer outlived shmdt) the store is undefined behaviour: the process is
\* killed by the fault, or the store lands in whatever else lies at the
\* address and the cycle goes on.
Store(new, next, e) ==
  IF Target # 0
  THEN /\ kernel' = [kernel EXCEPT !.segs[Target] = new]
       /\ pc' = next
       /\ hist' = Logged(hist, e)
  ELSE /\ UNCHANGED kernel
       /\ pc' \in {next, "crashed"}
       /\ hist' = [Logged(hist, e) EXCEPT !.wild = TRUE]

\* line 140: the export is disabled, nothing is done
UpdateSkip ==
  /\ pc = "idle"
  /\ ~UpdateEnabled(ctx)
  /\ op' = "update"
  /\ calls' = <<>>
  /\ UNCHANGED <<kernel, desired, pc, ctx, amap, tick, errno, saved_errno, shmid,
                 retAt, acqRet, gpsdata, wcopy, hist, rd>>

\* lines 140-145: a publish cycle begins, with the next snapshot
UpdateCall ==
  /\ pc = "idle"
  /\ UpdateEnabled(ctx)
  /\ hist.npub < MaxPublish
  /\ \E v \in Snapshots :
       /\ v = hist.npub + 1
       /\ gpsdata' = [gps_fd |-> GpsFd, data |-> v]
       /\ hist' = [hist EXCEPT !.npub = v]
  /\ tick' = NextTick(tick)
  /\ pc' = "up_b2"
  /\ op' = "update"
  /\ calls' = <<>>
  /\ rd' = IF rd.pc \in Reading
           THEN [rd EXCEPT !.ovl = IF @ < NTicks THEN @ + 1 ELSE @]
           ELSE rd
  /\ UNCHANGED <<kernel, desired, ctx, amap, errno, saved_errno, shmid, retAt,
                 acqRet, wcopy>>

\* line 161
UpdateBookend2 ==
  /\ pc = "up_b2"
  /\ Store(StoreBookend2(Shared, tick), "up_f1", "b2")
  /\ UNCHANGED <<desired, ctx, amap, tick, errno, saved_errno, shmid, retAt,
                 acqRet, gpsdata, wcopy, calls, op, rd>>

\* lines 162, 164, 170: memory_barrier()
UpdateFence ==
  /\ pc \in {"up_f1", "up_f2", "up_f3"}
  /\ pc' = CASE pc = "up_f1" -> "up_copy"
             [] pc = "up_f2" -> "up_patch"
             [] pc = "up_f3" -> "up_b1"
  /\ wcopy' = IF pc = "up_f1" THEN Words ELSE wcopy
  /\ hist' = Fence(hist, pc)
  /\ UNCHANGED <<kernel, desired, ctx, amap, tick, errno, saved_errno, shmid,
                 retAt, acqRet, gpsdata, calls, op, rd>>

\* line 163: the structure copy, word by word in the order the compiler chose
UpdateCopy ==
  /\ pc = "up_copy"
  /\ \E w \in wcopy :
       /\ Store(CopyWord(Shared, w, gpsdata, hist.npub),
                IF wcopy = {w} THEN "up_f2" ELSE "up_copy", "pay")
       /\ wcopy' = wcopy \ {w}
  /\ UNCHANGED <<desired, ctx, amap, tick, errno, saved_errno, shmid, retAt,
                 acqRet, gpsdata, calls, op, rd>>

\* line 166
UpdatePatch ==
  /\ pc = "up_patch"
  /\ Store(PatchFd(Shared, hist.npub), "up_f3", "patch")
  /\ UNCHANGED <<desired, ctx, amap, tick, errno, saved_errno, shmid, retAt,
                 acqRet, gpsdata, wcopy, calls, op, rd>>

\* lines 171-173: the leading bookend; the cycle is complete
UpdateBookend1 ==
  /\ pc = "up_b1"
  /\ IF Target # 0
     THEN /\ kernel' = [kernel EXCEPT
                          !.segs[Target] = StoreBookend1(Shared, tick)]
          /\ pc' = "idle"
          /\ hist' = [hist EXCEPT !.lastdone = Target, !.ev = <<"b1">>]
     ELSE /\ UNCHANGED kernel
          /\ pc' \in {"idle", "crashed"}
          /\ hist' = [hist EXCEPT !.wild = TRUE, !.lastdone = 0,
                                   !.ev = <<"b1">>]
  /\ gpsdata' = NoData
  /\ wcopy' = {}
  /\ UNCHANGED <<desired, ctx, amap, tick, errno, saved_errno, shmid, retAt,
                 acqRet, calls, op, rd>>

\* ------------------------------------------------------------- the reader
\* Another process attaches the segment found at the key.
ReaderAttach ==
  /\ rd.pc = "detached"
  /\ kernel.keyseg # 0
  /\ rd' = [rd EXCEPT !.pc = "idle", !.seg = kernel.keyseg]
  /\ kernel' = [kernel EXCEPT !.segs[kernel.keyseg].nattch = @ + 1]
  /\ UNCHANGED <<desired, pc, ctx, amap, tick, errno, saved_errno, shmid, retAt,
                 acqRet, gpsdata, wcopy, calls, op, hist>>

ReaderDetach ==
  /\ rd.pc = "idle"
  /\ rd' = NoRead
  /\ kernel' = Detach(kernel, rd.seg)
  /\ UNCHANGED <<desired, pc, ctx, amap, tick, errno, saved_errno, shmid, retAt,
                 acqRet, gpsdata, wcopy, calls, op, hist>>

\* The read protocol: the leading bookend ...
ReadBookend1 ==
  /\ rd.pc = "idle"
  /\ kernel.segs[rd.seg].size >= desired
  /\ rd' = [rd EXCEPT !.pc = "r_pay",
                      !.b1 = kernel.segs[rd.seg].bookend1,
                      !.todo = Words,
                      !.ovl = IF pc \in UpdatePcs THEN 1 ELSE 0,
                      !.steady = (hist.lastdone = rd.seg)]
  /\ UNCHANGED <<kernel, desired, pc, ctx, amap, tick, errno, saved_errno, shmid,
                 retAt, acqRet, gpsdata, wcopy, calls, op, hist>>

\* ... the payload, word by word ...
ReadWord ==
  /\ rd.pc = "r_pay"
  /\ \E w \in rd.todo :
       rd' = [rd EXCEPT !.fd = IF w = "fd" THEN kernel.segs[rd.seg].fd ELSE @,
                        !.data = IF w = "data" THEN kernel.segs[rd.seg].data ELSE @,
                        !.todo = @ \ {w},
                        !.pc = IF rd.todo = {w} THEN "r_b2" ELSE "r_pay"]
  /\ UNCHANGED <<kernel, desired, pc, ctx, amap, tick, errno, saved_errno, shmid,
                 retAt, acqRet, gpsdata, wcopy, calls, op, hist>>

\* ... the trailing bookend; the read is accepted when the bookends agree
ReadBookend2 ==
  /\ rd.pc = "r_b2"
  /\ rd' = [rd EXCEPT !.pc = "r_done", !.b2 = kernel.segs[rd.seg].bookend2]
  /\ UNCHANGED <<kernel, desired, pc, ctx, amap, tick, errno, saved_errno, shmid,
                 retAt, acqRet, gpsdata, wcopy, calls, op, hist>>

ReadReset ==
  /\ rd.pc = "r_done"
  /\ rd' = [NoRead EXCEPT !.pc = "idle", !.seg = rd.seg]
  /\ UNCHANGED <<kernel, desired, pc, ctx, amap, tick, errno, saved_errno, shmid,
                 retAt, acqRet, gpsdata, wcopy, calls, op, hist>>

\* ------------------------------------------------------------------- Next
\* The daemon's handlers, and processes attaching to and detaching from the
\* segment at the key.
NextManager ==
  \/ AcquireCall
  \/ RecreateProbe
  \/ RecreateStat
  \/ RecreateRemove
  \/ RecreateRetry
  \/ AcquireAttach
  \/ ReleaseSkip
  \/ ReleaseCall
  \/ ReleaseDetach
  \/ UpdateSkip
  \/ UpdateCall
  \/ UpdateBookend2
  \/ UpdateFence
  \/ UpdateCopy
  \/ UpdatePatch
  \/ UpdateBookend1
  \/ ReaderAttach
  \/ ReaderDetach

\* The same with the reader's read protocol.
Next ==
  \/ NextManager
  \/ ReadBookend1
  \/ ReadWord
  \/ ReadBookend2
  \/ ReadReset

\* shm_acquire in the runs of the protocol.
ProtocolAcquireCall ==
  /\ hist.naq < MaxProtocolAcquire
  /\ AcquireCall

\* The daemon's handlers, the other processes and the read protocol, in the
\* runs of the protocol.
NextProtocol ==
  \/ ProtocolAcquireCall
  \/ RecreateProbe
  \/ RecreateStat
  \/ RecreateRemove
  \/ RecreateRetry
  \/ AcquireAttach
  \/ ReleaseSkip
  \/ ReleaseCall
  \/ ReleaseDetach
  \/ UpdateSkip
  \/ UpdateCall
  \/ UpdateBookend2
  \/ UpdateFence
  \/ UpdateCopy
  \/ UpdatePatch
  \/ UpdateBookend1
  \/ ReaderAttach
  \/ ReaderDetach
  \/ ReadBookend1
  \/ ReadWord
  \/ ReadBookend2
  \/ ReadReset

\* The runs of the protocol: the platform has room, and the key is free, or
\* holds a segment of the record's size (zero filled or left by an earlier
\* run), or an unattached smaller one that recreate_segment replaces.
InitProtocol ==
  /\ Init
  /\ ~kernel.enospc
  /\ ~kernel.enomem
  /\ desired = MaxSize
  /\ kernel.segs[1] \in
       {NoSeg, OldSeg(1, 0, "owner", FALSE)} \cup
       {OldSeg(desired, n, "owner", st) : n \in {0, 1}, st \in BOOLEAN}

Spec == Init /\ [][Next]_vars
SpecManager == Init /\ [][NextManager]_vars
SpecProtocol == InitProtocol /\ [][NextProtocol]_vars

\* ================================================================= claims
Live(s) == s \in SegIds /\ kernel.segs[s].live

\* The payload words fd and data are one snapshot as shm_update exports it:
\* both stored by the same publish cycle (of this run, or of the earlier run
\* that left the segment), the descriptor replaced by the sentinel and the
\* data that of the snapshot the cycle was passed.
FromPublish(fd, data) ==
  \/ \E n \in 1..hist.npub :
       fd = Word(SHM_PSEUDO_FD, n) /\ data = Word(n, n)
  \/ fd = Word(SHM_PSEUDO_FD, -1) /\ data.pub = -1

\* A publish cycle has stored part of the payload and not yet the leading
\* bookend.
PayloadTouched ==
  \/ pc = "up_copy" /\ wcopy # Words
  \/ pc \in {"up_f2", "up_patch", "up_f3", "up_b1"}

\* The reader's read of the record the context exports has ended; a publish
\* cycle has been begun in this run, and no second one overlapped the read.
ReadOfOneCycle ==
  /\ rd.pc = "r_done"
  /\ rd.seg = ctx.shmid
  /\ hist.npub >= 1
  /\ rd.ovl <= 1

\* C1 (as claimed): a read that overlaps one publish cycle at most returns
\* mismatched bookends, or equal bookends with a payload that is a snapshot
\* passed to a publish call.
C1_ReadYieldsSnapshotOrMismatch ==
  ReadOfOneCycle => (rd.b1 # rd.b2 \/ FromPublish(rd.fd, rd.data))

\* C1 (amended): the same for every read that begins when the latest publish
\* cycle of the run was completed on the record being read.
C1_SteadyReadYieldsSnapshotOrMismatch ==
  (ReadOfOneCycle /\ rd.steady) =>
    (rd.b1 # rd.b2 \/ FromPublish(rd.fd, rd.data))

\* C1 witness: a read that began on a published record, overlapped one cycle,
\* got a payload mixed from two cycles and mismatched bookends.
C1_Witness ==
  /\ ReadOfOneCycle
  /\ rd.steady
  /\ rd.ovl = 1
  /\ rd.b1 # rd.b2
  /\ rd.fd.pub # rd.data.pub
  /\ rd.fd.pub > 0
  /\ rd.data.pub > 0

\* C2 (as claimed): in every state of the exported record, equal bookends
\* mean a complete snapshot, and the bookends differ while a cycle has stored
\* part of the payload and not yet the leading bookend.
C2_EqualBookendsMeanSnapshot ==
  Target # 0 =>
    /\ (kernel.segs[Target].bookend1 = kernel.segs[Target].bookend2
          => FromPublish(kernel.segs[Target].fd, kernel.segs[Target].data))
    /\ (PayloadTouched
          => kernel.segs[Target].bookend1 # kernel.segs[Target].bookend2)

\* C2 (amended): the same in every state in which the latest publish cycle of
\* the run was completed on the exported record.
C2_PublishedRecordInvariant ==
  (Target # 0 /\ hist.lastdone = Target) =>
    /\ (kernel.segs[Target].bookend1 = kernel.segs[Target].bookend2
          => FromPublish(kernel.segs[Target].fd, kernel.segs[Target].data))
    /\ (PayloadTouched
          => kernel.segs[Target].bookend1 # kernel.segs[Target].bookend2)

\* C2 witness: a later cycle on a published record has stored one payload
\* word; the payload is mixed and the bookends differ.
C2_Witness ==
  /\ Target # 0
  /\ hist.lastdone = Target
  /\ PayloadTouched
  /\ kernel.segs[Target].fd.pub # kernel.segs[Target].data.pub
  /\ kernel.segs[Target].bookend1 # kernel.segs[Target].bookend2

\* C3 (as claimed): shm_update is inside a publish cycle, storing through
\* context->shmexport, only while the process has the segment attached.
C3_PublishOnlyWhileAttached ==
  pc \in UpdatePcs => Target # 0

\* ------------------------------------------------ claims on recreate_segment
\* recreate_segment asks for the size and the attachments of the segment it
\* found at the key (line 60), in this step, and the platform answers.
StatStep(s) ==
  /\ pc = "aq_stat"
  /\ pc' # "aq_stat"
  /\ s = shmid
  /\ Live(s)
  /\ kernel.segs[s].perm # "none"

\* C4: when the segment found at the key is smaller than the desired size and
\* has processes attached, recreate_segment fails by its Busy return (line
\* 72), shm_acquire fails, and nothing was done to the segment: no delete was
\* issued and the kernel's state is what it was.
C4_BusyLeavesSegment ==
  [][\A s \in SegIds :
       (StatStep(s) /\ kernel.segs[s].size < desired
                    /\ kernel.segs[s].nattch > 0)
         => /\ retAt' = 72
            /\ shmid' = -1
            /\ acqRet' = "false"
            /\ kernel' = kernel
            /\ ~hist'.touched
            /\ calls' = <<"shmget", "shmget0", "IPC_STAT">>]_vars

\* C4 witness: recreate_segment has returned Busy and the smaller, attached
\* segment is still at the key.
C4_Witness ==
  /\ pc = "idle"
  /\ op = "acquire"
  /\ retAt = 72
  /\ acqRet = "false"
  /\ kernel.keyseg # 0
  /\ kernel.segs[kernel.keyseg].size < desired
  /\ kernel.segs[kernel.keyseg].nattch > 0

\* C5: when the segment found at the key is smaller than the desired size and
\* has no attachment, recreate_segment goes on to delete it; the delete the
\* platform accepts takes it from the key (and destroys it at once when still
\* unattached); the creation that follows, when the platform has room, returns
\* a new segment of exactly the desired size (line 81); and shm_acquire
\* attaching that segment succeeds, the context holding a segment of exactly
\* the desired size.
C5_UndersizedIdleSegmentIsRecreated ==
  [][/\ \A s \in SegIds :
          (StatStep(s) /\ kernel.segs[s].size < desired
                       /\ kernel.segs[s].nattch = 0)
            => (pc' = "aq_rmid" /\ shmid' = s /\ kernel' = kernel)
     /\ (pc = "aq_rmid" /\ pc' # "aq_rmid" /\ Live(shmid)
           /\ kernel.segs[shmid].perm = "owner")
          => /\ pc' = "aq_get2"
             /\ kernel.keyseg = shmid
             /\ kernel'.keyseg = 0
             /\ (kernel.segs[shmid].nattch = 0 => kernel'.segs[shmid] = NoSeg)
     /\ (pc = "aq_get2" /\ pc' # "aq_get2" /\ ~kernel.enospc)
          => /\ pc' = "aq_at"
             /\ retAt' = 81
             /\ shmid' = kernel.nid
             /\ ~kernel.segs[shmid'].live
             /\ kernel'.segs[shmid'] = NewSeg(desired)
             /\ kernel'.keyseg = shmid'
     /\ (pc = "aq_at" /\ pc' # "aq_at" /\ retAt = 81 /\ ~kernel.enomem)
          => /\ acqRet' = "true"
             /\ ctx'.shmid = shmid
             /\ ctx'.shmexport \in Addrs
             /\ amap'[ctx'.shmexport] = shmid
             /\ kernel'.segs[shmid].size = desired
             /\ kernel'.segs[shmid].nattch = kernel.segs[shmid].nattch + 1]_vars

\* C5 witness: shm_acquire has succeeded after recreate_segment deleted the
\* smaller segment and created one of the desired size.
C5_Witness ==
  /\ pc = "idle"
  /\ op = "acquire"
  /\ acqRet = "true"
  /\ retAt = 81
  /\ calls = <<"shmget", "shmget0", "IPC_STAT", "IPC_RMID", "shmget", "shmat">>
  /\ Target = ctx.shmid
  /\ kernel.segs[ctx.shmid].size = desired

C7_SufficientSegmentIsReturned ==
  (op = "acquire" /\ pc \in {"idle", "aq_at"} /\ retAt # 0
     /\ kernel.keyseg # 0 /\ kernel.segs[kernel.keyseg].size >= desired)
    => shmid = kernel.keyseg

\* C8: called while no segment is at the key and the platform has room,
\* recreate_segment returns from its first shmget (line 51) the identifier of
\* a segment that did not exist, created with exactly the desired size, and
\* has issued nothing but that shmget: no stat, no delete.
C8_FreshKeyCreatesExactSize ==
  [][(pc = "idle" /\ pc' \in {"aq_at", "aq_get0"}
        /\ kernel.keyseg = 0 /\ ~kernel.enospc)
       => /\ pc' = "aq_at"
          /\ retAt' = 51
          /\ shmid' \in SegIds
          /\ ~kernel.segs[shmid'].live
          /\ kernel'.segs[shmid'] = NewSeg(desired)
          /\ kernel'.keyseg = shmid'
          /\ calls' = <<"shmget">>]_vars

\* C8 witness: recreate_segment has just returned, from its first shmget, a
\* segment it created with the desired size.
C8_Witness ==
  /\ pc = "aq_at"
  /\ retAt = 51
  /\ calls = <<"shmget">>
  /\ hist.touched
  /\ kernel.keyseg = shmid
  /\ kernel.segs[shmid] = NewSeg(desired)

\* ------------------------------------------- claims on shm_acquire, shm_update
\* The context holds a valid handle and a non-null attached region.
Exporting(c, m, k) ==
  /\ c.shmexport \in Addrs
  /\ c.shmid \in SegIds
  /\ m[c.shmexport] = c.shmid
  /\ k.segs[c.shmid].live

\* C9: a shm_acquire called with a null region returns true exactly when it
\* leaves a valid handle and a non-null attached region in the context, and
\* on every failure it returns false and leaves the region null; a shm_update
\* called after such a failure does nothing.
C9_AcquireResultMatchesContext ==
  [][/\ (op = "acquire" /\ pc # "idle" /\ pc' = "idle" /\ hist.nullAtCall)
          => /\ acqRet' \in {"true", "false"}
             /\ (acqRet' = "true") = Exporting(ctx', amap', kernel')
             /\ (acqRet' = "false" => ctx'.shmexport = NULL)
     /\ (pc = "idle" /\ acqRet = "false" /\ hist.nullAtCall
           /\ op' = "update" /\ (op # "update" \/ pc' # pc))
          => /\ pc' = "idle"
             /\ UNCHANGED <<kernel, ctx, amap, tick, hist>>]_vars

\* C9 witness: the attach failed in a shm_acquire called with a null region,
\* the region is null, and a shm_update called since was skipped.
C9_Witness ==
  /\ pc = "idle"
  /\ op = "update"
  /\ acqRet = "false"
  /\ hist.nullAtCall
  /\ retAt \in {51, 81}
  /\ ctx.shmexport = NULL
  /\ hist.npub = 0

\* The n-th value of the tick counter.
Wrap(n) == ((n - IntMin) % ((IntMax - IntMin) + 1)) + IntMin

\* C10 (as claimed): the tick of every publish on a non-null region is one
\* more than that of the publish before it (wrapping), and when the publish
\* has completed both bookends of the exported record equal that tick.
C10_CompletedPublishStampsTick ==
  (pc = "idle" /\ op = "update" /\ UpdateEnabled(ctx))
    => /\ tick = Wrap(hist.npub)
       /\ ctx.shmid \in SegIds
       /\ kernel.segs[ctx.shmid].bookend1 = tick
       /\ kernel.segs[ctx.shmid].bookend2 = tick

\* ------------------------------------------------- claims on publish and read
\* The daemon's last call was a shm_update that ran its cycle to the end on
\* the segment it has attached, and the reader ends, in this step, a read of
\* that segment that no publish cycle overlapped.
ReadAfterPublish ==
  /\ pc = "idle"
  /\ op = "update"
  /\ Target # 0
  /\ rd.seg = Target
  /\ rd.ovl = 0
  /\ rd.pc = "r_b2"
  /\ rd'.pc = "r_done"

\* C11: a read that runs after a publish of snapshot s has completed on the
\* acquired segment and before the next publish begins returns equal bookends
\* (the tick of that publish), the data of s, and the sentinel, not the
\* daemon's descriptor, in the descriptor field.
C11_ReadAfterPublishYieldsSnapshot ==
  [][ReadAfterPublish
       => /\ rd'.b1 = rd'.b2
          /\ rd'.b1 = tick
          /\ rd'.data = Word(hist.npub, hist.npub)
          /\ rd'.fd = Word(SHM_PSEUDO_FD, hist.npub)
          /\ rd'.fd.val # GpsFd]_vars

\* C11 witness: such a read has ended after the second publish of the run.
C11_Witness ==
  /\ pc = "idle"
  /\ op = "update"
  /\ Target # 0
  /\ rd.seg = Target
  /\ rd.pc = "r_done"
  /\ rd.ovl = 0
  /\ hist.npub = 2
  /\ rd.b1 = tick
  /\ rd.b2 = tick
  /\ rd.data = Word(2, 2)
  /\ rd.fd = Word(SHM_PSEUDO_FD, 2)

\* shm_release or shm_update is called, in this step, on a context whose
\* region is null.
CalledOnNullRegion ==
  /\ pc = "idle"
  /\ ctx.shmexport = NULL
  /\ op' \in {"release", "update"}
  /\ (op' # op \/ pc' # pc \/ calls' # calls)

\* C12: on a context whose region is null, shm_release and shm_update return
\* at once: no system call is issued (no IPC_RMID, no shmdt), no segment is
\* written, the tick is not advanced, and the context is what it was.
C12_NullRegionCallsDoNothing ==
  [][CalledOnNullRegion
       => /\ pc' = "idle"
          /\ calls' = <<>>
          /\ UNCHANGED <<kernel, ctx, amap, tick, errno, hist>>]_vars

\* C12 witness: shm_release has returned at its null check after a failed
\* shm_acquire left the region null.
C12_Witness ==
  /\ pc = "idle"
  /\ op = "release"
  /\ calls = <<>>
  /\ acqRet = "false"
  /\ ctx.shmexport = NULL
  /\ tick = 0

\* C13 (as claimed): whatever the number of publish cycles interleaved with
\* it, a read that observed equal bookends did not return payload words
\* stored by different publishes.
C13_EqualBookendsMeanUntorn ==
  (rd.pc = "r_done" /\ rd.b1 = rd.b2) => rd.fd.pub = rd.data.pub

\* C13 (amended): the same for a read that begins when the latest publish
\* cycle of the run was completed on the record being read and that fewer
\* publish cycles overlap than the tick counter has values; its payload is
\* then a complete snapshot.
C13_EqualBookendsMeanUntornBeforeWrap ==
  (rd.pc = "r_done" /\ rd.steady /\ rd.ovl < NTicks /\ rd.b1 = rd.b2)
    => /\ rd.fd.pub = rd.data.pub
       /\ FromPublish(rd.fd, rd.data)

\* C13 witness: after the counter has wrapped, a read that a publish cycle
\* overlapped observed equal (negative) bookends and an untorn snapshot.
C13_Witness ==
  /\ rd.pc = "r_done"
  /\ rd.steady
  /\ rd.ovl >= 1
  /\ rd.ovl < NTicks
  /\ rd.b1 = rd.b2
  /\ rd.b1 < 0
  /\ rd.fd.pub = rd.data.pub
  /\ rd.fd.pub >= 2

\* ------------------------------------------------- claims on the write order
\* The log begins with the leading bookend store of the cycle before.
AfterEarlierCycle == hist.ev # <<>> /\ hist.ev[1] = "b1"

\* A memory_barrier() was executed between events i and k of the log.
FenceBetween(i, k) == \E j \in (i + 1)..(k - 1) : hist.ev[j] = "F"

PayloadEvents == {k \in DOMAIN hist.ev : hist.ev[k] \in {"pay", "patch"}}

\* C15: in each publish cycle every payload store (the words of the copy and
\* the descriptor patch) comes after the cycle's trailing bookend store and a
\* barrier after it, and when the leading bookend is about to be stored the
\* whole payload has been stored (the copy of every word and the patch), the
\* trailing bookend once, and a barrier lies after every payload store.
C15_WriteOrderWithinCycle ==
  /\ \A k \in PayloadEvents :
       \E i \in 1..(k - 1) : hist.ev[i] = "b2" /\ FenceBetween(i, k)
  /\ pc = "up_b1" =>
       /\ Cardinality({i \in DOMAIN hist.ev : hist.ev[i] = "b2"}) = 1
       /\ Cardinality({k \in PayloadEvents : hist.ev[k] = "pay"})
            = Cardinality(Words)
       /\ Cardinality({k \in PayloadEvents : hist.ev[k] = "patch"}) = 1
       /\ \A k \in PayloadEvents : FenceBetween(k, Len(hist.ev) + 1)
       /\ \A i \in DOMAIN hist.ev : hist.ev[i] = "b1" => i = 1

\* C15 witness: a cycle is about to store its leading bookend, having stored
\* the trailing bookend, the copy and the patch with the barriers between.
C15_Witness ==
  /\ pc = "up_b1"
  /\ Target # 0
  /\ hist.ev = <<"b1", "b2", "F", "pay", "pay", "F", "patch", "F">>
  /\ kernel.segs[Target].bookend2 = tick
  /\ kernel.segs[Target].bookend1 # tick
  /\ kernel.segs[Target].fd = Word(SHM_PSEUDO_FD, hist.npub)

\* ---------------------------------------------------- claims on error causes
\* recreate_segment is at one of its secondary probes (the shmget(key, 0, 0)
\* of line 55, the IPC_STAT of line 60, the IPC_RMID of line 75) and the
\* platform fails it.
ProbeFails ==
  \/ pc = "aq_get0" /\ ShmgetProbe(kernel).id = -1
  \/ pc = "aq_stat" /\ ShmctlStat(kernel, shmid).rc = -1
  \/ pc = "aq_rmid" /\ ShmctlRmid(kernel, shmid).rc = -1

\* C16: when a secondary probe of recreate_segment fails, recreate_segment
\* returns -1 (lines 58, 63, 78) with errno being the cause of the failure of
\* the first shmget (which is what that shmget would still answer), whatever
\* the failed probe had set.
C16_ProbeFailureReportsOriginalCause ==
  [][(ProbeFails /\ pc' # pc)
       => /\ retAt' \in {58, 63, 78}
          /\ shmid' = -1
          /\ acqRet' = "false"
          /\ pc' = "idle"
          /\ saved_errno = ShmgetCreat(kernel, desired).err
          /\ saved_errno \in {"ENOSPC", "EINVAL", "EACCES"}
          /\ errno' = saved_errno]_vars

\* C16 witness: the delete was refused (EPERM) and shm_acquire has failed with
\* errno EINVAL, the answer of the first shmget to the larger size.
C16_Witness ==
  /\ pc = "idle"
  /\ op = "acquire"
  /\ retAt = 78
  /\ acqRet = "false"
  /\ calls = <<"shmget", "shmget0", "IPC_STAT", "IPC_RMID">>
  /\ errno = "EINVAL"
  /\ saved_errno = "EINVAL"

\* ------------------------------------------------------ claims on shm_release
\* shm_release is called, in this step, on a context whose region is not
\* null.
ReleaseCalledOnRegion ==
  /\ pc = "idle"
  /\ ctx.shmexport # NULL
  /\ op' = "release"
  /\ (op' # op \/ pc' # pc \/ calls' # calls)

\* C17: shm_release on a non-null region first issues the mark for
\* destruction (IPC_RMID on context->shmid), whose failure is recorded as a
\* warning and nothing else, and then, whether the mark failed or not, the
\* detach (shmdt of context->shmexport), after which the process has no
\* mapping at the region and the call returns.
C17_ReleaseMarksThenDetaches ==
  [][/\ ReleaseCalledOnRegion
          => /\ pc' = "rl_dt"
             /\ calls' = <<"IPC_RMID">>
             /\ hist'.warned = (ShmctlRmid(kernel, ctx.shmid).rc = -1)
             /\ kernel' = ShmctlRmid(kernel, ctx.shmid).k
             /\ UNCHANGED <<ctx, amap>>
     /\ (pc = "rl_dt" /\ pc' # pc)
          => /\ pc' = "idle"
             /\ calls' = <<"IPC_RMID", "shmdt">>
             /\ kernel' = Shmdt(kernel, amap, ctx.shmexport).k
             /\ ctx.shmexport \in Addrs
             /\ amap'[ctx.shmexport] = 0
             /\ UNCHANGED <<ctx, hist.warned>>]_vars

\* C17 witness: the mark was refused (the segment belongs to someone else),
\* which was logged, and the segment has been detached all the same.
C17_Witness ==
  /\ pc = "idle"
  /\ op = "release"
  /\ calls = <<"IPC_RMID", "shmdt">>
  /\ hist.warned
  /\ errno = "EPERM"
  /\ amap[ctx.shmexport] = 0
  /\ kernel.segs[ctx.shmid].live
  /\ kernel.segs[ctx.shmid].nattch = 0

\* ------------------------------------------------------ claims on progress
\* A step of the publish cycle, and a step of the read protocol.
PublishStep ==
  UpdateBookend2 \/ UpdateFence \/ UpdateCopy \/ UpdatePatch \/ UpdateBookend1

ReadStep == ReadWord \/ ReadBookend2

\* A publish cycle was started (on a non-null region, line 140) and has not
\* run to its end.
InPublishCycle == op = "update" /\ pc # "idle"

\* C18 (as claimed): whatever the reader does, a publish cycle that was
\* started and has not completed can take its next step, having issued at most
\* the stores and barriers of one cycle, and a read that was started and has
\* not completed can take its next step whatever the writer does.
C18_PublishAndReadNeverBlock ==
  /\ InPublishCycle => (ENABLED PublishStep /\ Len(hist.ev) <= 8)
  /\ rd.pc \in Reading => ENABLED ReadStep

\* ------------------------------------------- claims on the delete and its race
\* recreate_segment issues, in this step, the delete of line 75.
DeleteIssued == pc = "aq_rmid" /\ pc' # pc

\* C19 (as claimed): the segment recreate_segment deletes has no process
\* attached at the moment the delete is issued.
C19_DeletedSegmentUnattachedAtDelete ==
  [][DeleteIssued => kernel.segs[shmid].nattch = 0]_vars

\* C19 (amended): the segment recreate_segment deletes had no process
\* attached at the moment its attachment count was queried (line 60): the
\* delete is reached from that query only, on the segment queried, which was
\* then smaller than desired and unattached.
C19_DeletedSegmentUnattachedAtQuery ==
  [][/\ pc' = "aq_rmid" => pc \in {"aq_stat", "aq_rmid"}
     /\ (pc = "aq_stat" /\ pc' = "aq_rmid")
          => /\ Live(shmid)
             /\ kernel.segs[shmid].nattch = 0
             /\ kernel.segs[shmid].size < desired
             /\ shmid' = shmid
     /\ DeleteIssued
          => /\ calls = <<"shmget", "shmget0", "IPC_STAT">>
             /\ calls' = Append(calls, "IPC_RMID")
             /\ kernel' = ShmctlRmid(kernel, shmid).k]_vars

\* C19 witness: a process attached between the query and the delete; the
\* segment was deleted with that process attached and lives on, off the key,
\* until it detaches.
C19_Witness ==
  /\ pc = "aq_get2"
  /\ calls = <<"shmget", "shmget0", "IPC_STAT", "IPC_RMID">>
  /\ kernel.segs[shmid].live
  /\ kernel.segs[shmid].rmid
  /\ kernel.segs[shmid].nattch = 1
  /\ rd.seg = shmid
  /\ kernel.keyseg = 0

\* shm_release is called, in this step, when the daemon's last call was a
\* shm_release too (no shm_acquire in between).
ReleaseCalledAgain ==
  /\ pc = "idle"
  /\ op = "release"
  /\ op' = "release"
  /\ (pc' # pc \/ calls' # calls)

\* C20 (as claimed): a shm_release that follows a shm_release with no
\* shm_acquire in between issues no mark for destruction and no detach, and
\* leaves the segments and the attachments as they were.
C20_SecondReleaseDoesNothing ==
  [][ReleaseCalledAgain
       => /\ pc' = "idle"
          /\ calls' = <<>>
          /\ UNCHANGED <<kernel, amap, errno>>]_vars

====
